---- MODULE Spec2Model ----
(***************************************************************************)
(* Model of sapl_base: the Remote policy decision point client             *)
(* (policy_decision_points.py) and the MultiSubscriptionBuilder            *)
(* (authorization_subscription_factory.py).                                *)
(*                                                                         *)
(* Python values are records [type, val]; an HTTP body is a sequence of    *)
(* byte tokens.  The token "P" stands for the bytes {"decision":"PERMIT"}, *)
(* "D" for {"decision":"DENY"}, "I" for {"decision":"INDETERMINATE"},      *)
(* "NL" for the newline byte, "CR" for carriage return and "BAD" for a     *)
(* byte that is not valid UTF-8.                                           *)
(***************************************************************************)
EXTENDS Integers, Sequences, FiniteSets, TLC

VARIABLES headers, clients, call, result,
          built, subject, action, resource, environment,
          authorization_subscription, multi, bres, nbuild, added,
          factory, decorated, invocations, dummy, pep, strip

vars == <<headers, clients, call, result, built, subject, action, resource,
          environment, authorization_subscription, multi, bres, nbuild,
          added, factory, decorated, invocations, dummy, pep, strip>>

remoteVars == <<headers, clients, call, result>>

builderVars == <<built, subject, action, resource, environment,
                 authorization_subscription, multi, bres, nbuild, added>>

factoryVars == <<factory>>

decoratorVars == <<decorated, invocations>>

dummyVars == <<dummy>>

enforcementVars == <<pep>>

stripVars == <<strip>>

(***************************************************************************)
(* Bounds                                                                  *)
(***************************************************************************)
MaxLines == 4

MaxClients == 2

MaxSubs == 3

MaxBuilds == 2

\* invocations of one decorated operation
MaxInvocations == 2

\* values the protected operation's stream produces
MaxValues == 4

\* decisions the decision stream delivers during one enforcement
MaxDecisions == 4

\* nesting depth of the mappings handed to _remove_empty_dicts
MaxDepth == 2

(***************************************************************************)
(* Python values                                                           *)
(***************************************************************************)
None == [type |-> "NoneType", val |-> "None"]

\* a mapping, held as its set of (key, value) pairs
Mapping(items) == [type |-> "dict", val |-> items]

\* {"decision": d}
Dict(d) == Mapping({<<"decision", d>>})

List(l) == [type |-> "list", val |-> l]

\* the truth value of a Python object
Truthy(v) ==
    /\ v.type # "NoneType"
    /\ v.type = "dict" => v.val # {}
    /\ v.type = "list" => v.val # <<>>

Str(s) == [type |-> "str", val |-> s]

PyEq(a, b) == a.type = b.type /\ a.val = b.val

\* every error the model raises is a subclass of Exception
ExceptionSubclasses == {"ClientConnectorError", "ClientResponseError",
                        "ClientPayloadError", "UnicodeDecodeError",
                        "StopAsyncIteration", "ConnectionError",
                        "ChunkedEncodingError", "TypeError", "Exception"}

(***************************************************************************)
(* Inputs: what the decision service may answer                            *)
(***************************************************************************)
LineKinds == {<<"P", "NL">>, <<"D", "NL">>, <<"I", "NL">>, <<"BAD", "NL">>,
              <<"NL">>}

RECURSIVE Flatten(_)
Flatten(ls) == IF ls = <<>> THEN <<>> ELSE Head(ls) \o Flatten(Tail(ls))

Bodies == {Flatten(ls) : ls \in UNION {[1..n -> LineKinds] : n \in 0..MaxLines}}

Statuses == {200, 201, 204, 404, 500}

\* a body that comes with a status other than 200
ErrorBodies == {<<>>, <<"P", "NL", "NL">>}

Responses ==
    {[net |-> "fail", status |-> 0, body |-> <<>>, abort |-> FALSE]}
    \cup [net : {"ok"}, status : {200}, body : Bodies, abort : BOOLEAN]
    \cup [net : {"ok"}, status : Statuses \ {200}, body : ErrorBodies,
          abort : {FALSE}]

\* what a caller asks for: a subscription with the default event kind, or a
\* multi subscription with the event kind of multi decisions
Requests == {<<"subscription", "decide">>,
             <<"multi_subscription", "multi-decide">>}

\* base_url arguments other than the default
Urls == {"https://pdp.example/api/"}

(***************************************************************************)
(* Byte and text helpers                                                   *)
(***************************************************************************)
\* lines.endswith(b'\n\n')
EndsWithBlankLine(lines) ==
    /\ Len(lines) >= 2
    /\ lines[Len(lines)] = "NL"
    /\ lines[Len(lines) - 1] = "NL"

\* aiohttp StreamReader iteration: the body cut after every newline byte
RECURSIVE ReadLines(_, _)
ReadLines(body, cur) ==
    IF body = <<>> THEN (IF cur = <<>> THEN <<>> ELSE <<cur>>)
    ELSE IF Head(body) = "NL"
         THEN <<Append(cur, "NL")>> \o ReadLines(Tail(body), <<>>)
         ELSE ReadLines(Tail(body), Append(cur, Head(body)))

\* bytes.splitlines(False): cut at \n, \r and \r\n, terminators dropped
RECURSIVE SplitLines(_, _)
SplitLines(b, cur) ==
    IF b = <<>> THEN (IF cur = <<>> THEN <<>> ELSE <<cur>>)
    ELSE IF Head(b) = "NL" THEN <<cur>> \o SplitLines(Tail(b), <<>>)
    ELSE IF Head(b) = "CR"
         THEN IF Len(b) >= 2 /\ b[2] = "NL"
              THEN <<cur>> \o SplitLines(Tail(Tail(b)), <<>>)
              ELSE <<cur>> \o SplitLines(Tail(b), <<>>)
    ELSE SplitLines(Tail(b), Append(cur, Head(b)))

\* the text a byte token decodes to
Utf8Char(b) ==
    CASE b = "P" -> "{\"decision\":\"PERMIT\"}"
      [] b = "D" -> "{\"decision\":\"DENY\"}"
      [] b = "I" -> "{\"decision\":\"INDETERMINATE\"}"
      [] b = "NL" -> "\n"
      [] b = "CR" -> "\r"

\* item.decode('utf-8') is defined only for valid UTF-8
Decodable(item) == \A i \in 1..Len(item) : item[i] # "BAD"

Utf8Decode(item) == [i \in 1..Len(item) |-> Utf8Char(item[i])]

\* response = ''; for item in line_set: response += item.decode('utf-8')
RECURSIVE JoinDecoded(_)
JoinDecoded(line_set) ==
    IF line_set = <<>> THEN <<>>
    ELSE Utf8Decode(Head(line_set)) \o JoinDecoded(Tail(line_set))

AllDecodable(line_set) == \A i \in 1..Len(line_set) : Decodable(line_set[i])

(***************************************************************************)
(* RemotePolicyDecisionPoint                                               *)
(***************************************************************************)
PERMIT == Dict("PERMIT")

DENY == Dict("DENY")

INDETERMINATE == Dict("INDETERMINATE")

DefaultCredentials == <<"YJidgyT2mfdkbmL", "Fa4zvYQdiwHZVXh">>

Credentials == {DefaultCredentials, <<"key2", "secret2">>}

\* "Basic " + b64encode(str.encode(f"{key}:{secret}")).decode("ascii")
BasicAuth(key, secret) == <<"Basic", "b64", key, ":", secret>>

\* the class attribute RemotePolicyDecisionPoint.headers as written in the class body
ClassHeaders == {<<"Content-type", <<"application/json">>>>}

\* d[name] = value on a dict held as a set of (name, value) pairs
SetItem(d, name, value) == {p \in d : p[1] # name} \cup {<<name, value>>}

\* self.headers of an instance: no instance attribute exists, so the class dict
HeadersOf(i) == headers

NoResponse == [net |-> "none", status |-> 0, body |-> <<>>, abort |-> FALSE]

NoRequest == [method |-> "-", url |-> <<>>, data |-> "-", headers |-> {}]

Outcome(kind, value, end, read) ==
    [kind |-> kind, value |-> value, end |-> end, read |-> read]

\* the loop of decide without the closing lines = b''
RECURSIVE DecideLoop_NoReset(_, _, _, _)
DecideLoop_NoReset(rest, lines, out, eof) ==
    IF rest = <<>> THEN [yields |-> out, end |-> eof, read |-> TRUE]
    ELSE LET buf == lines \o Head(rest) IN
         IF EndsWithBlankLine(buf)
         THEN LET line_set == SplitLines(buf, <<>>) IN
              IF ~AllDecodable(line_set)
              THEN [yields |-> out, end |-> "UnicodeDecodeError", read |-> TRUE]
              ELSE DecideLoop_NoReset(Tail(rest), buf,
                                      Append(out, Str(JoinDecoded(line_set))),
                                      eof)
         ELSE DecideLoop_NoReset(Tail(rest), buf, out, eof)

\* the loop of decide over response.content: rest = lines still to arrive,
\* lines = the buffer, out = the values yielded so far, eof = how the body ends
RECURSIVE DecideLoop(_, _, _, _)
DecideLoop(rest, lines, out, eof) ==
    IF rest = <<>> THEN [yields |-> out, end |-> eof, read |-> TRUE]
    ELSE LET buf == lines \o Head(rest) IN
         IF EndsWithBlankLine(buf)
         THEN LET line_set == SplitLines(buf, <<>>) IN
              IF ~AllDecodable(line_set)
              THEN [yields |-> out, end |-> "UnicodeDecodeError", read |-> TRUE]
              ELSE DecideLoop(Tail(rest), <<>>,
                              Append(out, Str(JoinDecoded(line_set))), eof)
         ELSE DecideLoop(Tail(rest), buf, out, eof)

\* the request decide issues
DecideRequest(i, subscription, decision_events) ==
    [method |-> "GET", url |-> <<"http://localhost:8080/">>, data |-> "-",
     headers |-> {}]

\* the async generator decide, run until it ends: what it yields and how it ends
Decide(resp) ==
    IF resp.net = "fail"
    THEN [yields |-> <<>>, end |-> "ClientConnectorError", read |-> FALSE]
    ELSE IF resp.status >= 400
    THEN [yields |-> <<>>, end |-> "ClientResponseError", read |-> FALSE]
    ELSE IF resp.status = 204
    THEN [yields |-> <<INDETERMINATE>>, end |-> "StopAsyncIteration",
          read |-> FALSE]
    ELSE IF resp.status # 200
    THEN [yields |-> <<INDETERMINATE>>, end |-> "StopAsyncIteration",
          read |-> FALSE]
    ELSE DecideLoop(ReadLines(resp.body, <<>>), <<>>, <<>>,
                    IF resp.abort THEN "ClientPayloadError"
                    ELSE "StopAsyncIteration")

\* decide_once whose except clause catches the transport errors only
DecideOnce_ClientErrorOnly(resp) ==
    LET decision_stream == Decide(resp) IN
    IF decision_stream.yields = <<>>
    THEN IF decision_stream.end \in {"ClientConnectorError",
                                     "ClientResponseError",
                                     "ClientPayloadError"}
         THEN Outcome("return", DENY, "-", decision_stream.read)
         ELSE Outcome("raise", Str(decision_stream.end), "-",
                      decision_stream.read)
    ELSE LET decision == decision_stream.yields[1] IN
         IF PyEq(decision, INDETERMINATE)
         THEN Outcome("return", DENY, "-", decision_stream.read)
         ELSE Outcome("return", decision, "-", decision_stream.read)

\* decide_once: the first value of decide, or DENY
DecideOnce(resp) ==
    LET decision_stream == Decide(resp) IN
    IF decision_stream.yields = <<>>
    THEN IF decision_stream.end \in ExceptionSubclasses
         THEN Outcome("return", DENY, "-", decision_stream.read)
         ELSE Outcome("raise", Str(decision_stream.end), "-",
                      decision_stream.read)
    ELSE LET decision == decision_stream.yields[1] IN
         IF PyEq(decision, INDETERMINATE)
         THEN Outcome("return", DENY, "-", decision_stream.read)
         ELSE Outcome("return", decision, "-", decision_stream.read)

\* the request sync_decide issues
SyncRequest(i, subscription, decision_events) ==
    [method |-> "POST", url |-> <<clients[i].base_url, decision_events>>,
     data |-> subscription, headers |-> HeadersOf(i)]

\* iterating the bytes object stream_response.content yields integers
ContentItems(body) == [k \in 1..Len(body) |-> [type |-> "int", val |-> body[k]]]

\* lines += line
BytesIAdd(lines, line) ==
    IF line.type = "bytes" THEN [ok |-> TRUE, val |-> lines \o line.val]
    ELSE [ok |-> FALSE, val |-> lines]

\* the loop of sync_decide over stream_response.content
RECURSIVE SyncLoop(_, _)
SyncLoop(rest, lines) ==
    IF rest = <<>> THEN Outcome("return", None, "-", TRUE)
    ELSE LET sum == BytesIAdd(lines, Head(rest)) IN
         IF ~sum.ok THEN Outcome("raise", Str("TypeError"), "-", TRUE)
         ELSE IF EndsWithBlankLine(sum.val)
         THEN LET line_set == SplitLines(sum.val, <<>>) IN
              IF ~AllDecodable(line_set)
              THEN Outcome("raise", Str("UnicodeDecodeError"), "-", TRUE)
              ELSE IF PyEq(Str(JoinDecoded(line_set)), INDETERMINATE)
              THEN Outcome("return", DENY, "-", TRUE)
              ELSE SyncLoop(Tail(rest), sum.val)
         ELSE SyncLoop(Tail(rest), sum.val)

\* sync_decide without the branch for a status other than 200
SyncDecide_Only204(resp) ==
    IF resp.net = "fail"
    THEN Outcome("raise", Str("ConnectionError"), "-", FALSE)
    ELSE IF resp.status = 204 THEN Outcome("return", DENY, "-", FALSE)
    ELSE IF resp.abort
    THEN Outcome("raise", Str("ChunkedEncodingError"), "-", TRUE)
    ELSE SyncLoop(ContentItems(resp.body), <<>>)

SyncDecide(resp) ==
    IF resp.net = "fail"
    THEN Outcome("raise", Str("ConnectionError"), "-", FALSE)
    ELSE IF resp.status = 204 THEN Outcome("return", DENY, "-", FALSE)
    ELSE IF resp.status # 200 THEN Outcome("return", DENY, "-", FALSE)
    ELSE IF resp.abort
    THEN Outcome("raise", Str("ChunkedEncodingError"), "-", TRUE)
    ELSE SyncLoop(ContentItems(resp.body), <<>>)

(***************************************************************************)
(* Actions of the Remote client.  call is the decision request a caller    *)
(* has issued and that the service has not answered yet; result is what    *)
(* the last finished operation gave its caller.                            *)
(***************************************************************************)
NoCall == [op |-> "-", client |-> 0, sub |-> "-", event |-> "-",
           req |-> NoRequest]

\* an async generator of decide: not there, suspended at a yield with its
\* session and response open, closed by aclose, or run to its end; pulled
\* counts the decisions taken from it
NoStream == [state |-> "-", pulled |-> 0]

\* decision_stream.__anext__() on a new generator: it runs to its first yield
\* or, yielding nothing, to its end
Anext(resp) ==
    IF Decide(resp).yields # <<>> THEN [state |-> "suspended", pulled |-> 1]
    ELSE [state |-> "finished", pulled |-> 0]

\* decision_stream.aclose(): the async with blocks of decide are left
Aclose(decision_stream) ==
    IF decision_stream.state = "suspended"
    THEN [decision_stream EXCEPT !.state = "closed"]
    ELSE decision_stream

\* decide_once without its aclose()
DecideOnceStream_NoClose(resp) == Anext(resp)

\* the generator decide_once created, when decide_once returns
DecideOnceStream(resp) ==
    LET decision_stream == Anext(resp) IN
    IF decision_stream.state = "suspended" THEN Aclose(decision_stream)
    ELSE decision_stream

\* the generator of an operation when the operation is over
StreamOf(op, resp) ==
    CASE op = "decide" ->
           [state |-> "finished", pulled |-> Len(Decide(resp).yields)]
      [] op = "decide_once" -> DecideOnceStream(resp)
      [] op = "sync_decide" -> NoStream

NoResult == [op |-> "-", resp |-> NoResponse,
             outcome |-> Outcome("-", None, "-", FALSE), stream |-> NoStream]

\* RemotePolicyDecisionPoint(base_url, key, secret, verify)
Construct(base_url, key, secret, verify) ==
    /\ Len(clients) < MaxClients
    /\ IF verify = "None" \/ base_url = "None"
       THEN /\ UNCHANGED <<headers, clients>>
            /\ result' = [op |-> "__init__", resp |-> NoResponse,
                          outcome |-> Outcome("raise", Str("Exception"), "-",
                                              FALSE),
                          stream |-> NoStream]
       ELSE /\ clients' = Append(clients,
                                 [base_url |-> base_url, verify |-> verify])
            /\ headers' = IF key # "None"
                          THEN SetItem(headers, "Authorization",
                                       BasicAuth(key, secret))
                          ELSE headers
            /\ result' = [op |-> "__init__", resp |-> NoResponse,
                          outcome |-> Outcome("return", None, "-", FALSE),
                          stream |-> NoStream]
    /\ UNCHANGED call
    /\ UNCHANGED <<builderVars, factoryVars, decoratorVars, dummyVars,
                 enforcementVars, stripVars>>

\* the request an operation of client i sends
RequestOf(op, i, subscription, decision_events) ==
    IF op = "sync_decide" THEN SyncRequest(i, subscription, decision_events)
    ELSE DecideRequest(i, subscription, decision_events)

\* what an operation gives its caller when the service answers resp; a
\* consumer of decide iterates the stream to its end
Run(op, resp) ==
    CASE op = "decide" ->
           LET g == Decide(resp) IN Outcome("stream", g.yields, g.end, g.read)
      [] op = "decide_once" -> DecideOnce(resp)
      [] op = "sync_decide" -> SyncDecide(resp)

\* a caller starts decide, decide_once or sync_decide on client i
Call(op, i, subscription, decision_events) ==
    /\ call = NoCall
    /\ call' = [op |-> op, client |-> i, sub |-> subscription,
                event |-> decision_events,
                req |-> RequestOf(op, i, subscription, decision_events)]
    /\ result' = NoResult
    /\ UNCHANGED <<headers, clients>>
    /\ UNCHANGED <<builderVars, factoryVars, decoratorVars, dummyVars,
                 enforcementVars, stripVars>>

\* the service answers (or the connection fails) and the operation runs to
\* its end
Respond(resp) ==
    /\ call # NoCall
    /\ result' = [op |-> call.op, resp |-> resp, outcome |-> Run(call.op, resp),
                  stream |-> StreamOf(call.op, resp)]
    /\ call' = NoCall
    /\ UNCHANGED <<headers, clients>>
    /\ UNCHANGED <<builderVars, factoryVars, decoratorVars, dummyVars,
                 enforcementVars, stripVars>>

(***************************************************************************)
(* MultiSubscriptionBuilder                                                *)
(***************************************************************************)
SUBJECT_ID == "subjectID"

ACTION_ID == "actionID"

RESOURCE_ID == "resourceID"

ENVIRONMENT_ID == "environmentID"

Present == Mapping({<<"name", "a">>})

\* the subscriptions handed to the builder: every pattern of present and
\* absent roles, one with an empty mapping, one with another value and id
InputSubscriptions ==
    [subscription_id : {"id1"}, subject : {None, Present},
     action : {None, Present}, resource : {None, Present},
     environment : {None, Present}]
    \cup {[subscription_id |-> "id1", subject |-> Mapping({}),
           action |-> Present, resource |-> None, environment |-> None],
          [subscription_id |-> "id2", subject |-> Mapping({<<"name", "b">>}),
           action |-> None, resource |-> None, environment |-> None]}

\* _add_*: a value the table already holds is not appended again
AddRole_Dedup(table, value) ==
    IF Truthy(value) /\ ~\E k \in 1..Len(table) : PyEq(table[k], value)
    THEN Append(table, value) ELSE table

\* _add_subject, _add_action, _add_resource, _add_environment: the table
\* after the call
AddRole(table, value) == IF Truthy(value) THEN Append(table, value) ELSE table

\* _add_*: the index written is the length of the table, not the length - 1
AddRoleId_Length(table, value, role_id) ==
    IF Truthy(value) THEN {<<role_id, Len(Append(table, value))>>} ELSE {}

\* ... and the entry the call writes into the descriptor dict
AddRoleId(table, value, role_id) ==
    IF Truthy(value) THEN {<<role_id, Len(Append(table, value)) - 1>>} ELSE {}

\* _remove_empty_list that returns the list it was given, empty or not
RemoveEmptyList_Keep(subscription_list) == List(subscription_list)

\* _remove_empty_list
RemoveEmptyList(subscription_list) ==
    IF ~Truthy(List(subscription_list)) THEN None ELSE List(subscription_list)

WithAuthorizationSubscription(s) ==
    /\ Len(authorization_subscription) < MaxSubs
    /\ subject' = AddRole(subject, s.subject)
    /\ action' = AddRole(action, s.action)
    /\ resource' = AddRole(resource, s.resource)
    /\ environment' = AddRole(environment, s.environment)
    /\ LET dic == AddRoleId(subject, s.subject, SUBJECT_ID)
                  \cup AddRoleId(action, s.action, ACTION_ID)
                  \cup AddRoleId(resource, s.resource, RESOURCE_ID)
                  \cup AddRoleId(environment, s.environment, ENVIRONMENT_ID)
       IN authorization_subscription' =
              Append(authorization_subscription, <<s.subscription_id, dic>>)
    /\ bres' = "added"
    /\ added' = Append(added, s)
    /\ UNCHANGED <<built, multi, nbuild>>
    /\ UNCHANGED <<remoteVars, factoryVars, decoratorVars, dummyVars,
                 enforcementVars, stripVars>>

\* build without its guard
AlreadyBuilt_Never == FALSE

\* the guard of build: raise Exception("already built") when it holds
AlreadyBuilt == built

Build ==
    /\ nbuild < MaxBuilds
    /\ nbuild' = nbuild + 1
    /\ IF AlreadyBuilt
       THEN /\ bres' = "already built"
            /\ UNCHANGED <<built, multi>>
       ELSE /\ built' = TRUE
            /\ multi' = [type |-> "MultiSubscription",
                         val |-> [subject |-> RemoveEmptyList(subject),
                                  action |-> RemoveEmptyList(action),
                                  resource |-> RemoveEmptyList(resource),
                                  environment |-> RemoveEmptyList(environment),
                                  authorization_subscription |->
                                      RemoveEmptyList(authorization_subscription)]]
            /\ bres' = "ok"
    /\ UNCHANGED <<subject, action, resource, environment,
                   authorization_subscription, added>>
    /\ UNCHANGED <<remoteVars, factoryVars, decoratorVars, dummyVars,
                 enforcementVars, stripVars>>

(***************************************************************************)
(* AuthorizationSubscriptionFactory.  factory is the call of               *)
(* create_authorization_subscription in progress or just finished: its     *)
(* arguments, the collaborators invoked so far (log, in order), the local  *)
(* variables _subject .. _environment (resolved) and what the caller got.  *)
(***************************************************************************)
Roles == {"subject", "action", "resource", "environment"}

Function(returns) == [type |-> "function", val |-> returns]

EmptyMapping == Mapping({})

Plain == Mapping({<<"name", Str("x")>>})

NestedEmpty == Mapping({<<"a", EmptyMapping>>})

DeepEmpty == Mapping({<<"a", NestedEmpty>>})

ListOfEmpty == Mapping({<<"a", List(<<EmptyMapping>>)>>})

\* what a decorator may carry for a role: nothing, a literal, a callable
SuppliedArguments == {None, Plain, EmptyMapping, ListOfEmpty, Str("user"),
                      Function(NestedEmpty)}

\* the default functions of a framework integration
AllDefaults == [subject |-> Function(Plain), action |-> Function(Plain),
                resource |-> Function(DeepEmpty),
                environment |-> Function(EmptyMapping)]

DefaultFunctions ==
    {AllDefaults} \cup {[AllDefaults EXCEPT ![r] = None] : r \in Roles}

Contexts == {"values1", "values2"}

Scopes == {"automatic", "stream"}

FnTypes == {"function", "stream"}

EnforcementTypes == {"pre_enforce", "drop_while_denied"}

NoArguments == [r \in Roles |-> None]

IdleFactory ==
    [pc |-> "idle", values |-> "-", scope |-> "-", enforcement_type |-> "-",
     fn_type |-> "-", args |-> NoArguments, defaults |-> AllDefaults,
     log |-> <<>>, resolved |-> NoArguments,
     outcome |-> [kind |-> "-", value |-> None]]

AttributeError == [type |-> "raise", val |-> "AttributeError"]

\* _remove_empty_dicts
RECURSIVE RemoveEmptyDicts(_)
RemoveEmptyDicts(dictionary) ==
    IF dictionary.type # "dict" THEN AttributeError
    ELSE LET dict_copy ==
                 {<<p[1], IF p[2].type = "dict" THEN RemoveEmptyDicts(p[2])
                          ELSE p[2]>> : p \in dictionary.val}
             kept == {p \in dict_copy : ~PyEq(p[2], None)}
         IN IF kept = {} THEN None ELSE Mapping(kept)

\* keys and values other than mappings of the dictionaries that are stripped
Keys == {"a", "b"}

Leaves == {None, Str("x")}

\* the dictionaries nested n deep at most
RECURSIVE Dictionaries(_)
Dictionaries(n) ==
    IF n = 0 THEN {EmptyMapping}
    ELSE LET values == Leaves \cup Dictionaries(n - 1) IN
         UNION {{Mapping({<<k, f[k]>> : k \in ks}) : f \in [ks -> values]} :
                ks \in SUBSET Keys}

NoStrip == [dictionary |-> EmptyMapping, result |-> None, called |-> FALSE]

\* self._remove_empty_dicts(dictionary) called on the dictionary at hand
RemoveEmptyDictsCall ==
    /\ ~strip.called
    /\ strip' = [strip EXCEPT !.result = RemoveEmptyDicts(strip.dictionary),
                              !.called = TRUE]
    /\ UNCHANGED <<remoteVars, builderVars, factoryVars, decoratorVars,
                   dummyVars, enforcementVars>>

\* _argument_is_callable
ArgumentIsCallable(role, argument, values) ==
    IF argument.type = "function"
    THEN [value |-> argument.val, invoked |-> <<<<role, "argument", values>>>>]
    ELSE [value |-> argument, invoked |-> <<>>]

\* one role of _create_subscription whose test is "if subject:"
ResolveRole_Truthy(role, argument, default_function, values) ==
    IF Truthy(argument)
    THEN ArgumentIsCallable(role, argument, values)
    ELSE [value |-> default_function.val,
          invoked |-> <<<<role, "default", values>>>>]

\* one role of _create_subscription: the value and the collaborator invoked
ResolveRole(role, argument, default_function, values) ==
    IF ~PyEq(argument, None)
    THEN ArgumentIsCallable(role, argument, values)
    ELSE [value |-> default_function.val,
          invoked |-> <<<<role, "default", values>>>>]

\* the check of the defaults made only for the roles that need one
DefaultsSupplied_Needed(args, defaults) ==
    \A r \in Roles : PyEq(args[r], None) => Truthy(defaults[r])

\* all((default_subject_function, ..., default_environment_function))
DefaultsSupplied(args, defaults) == \A r \in Roles : Truthy(defaults[r])

\* _create_subscription
CreateSubscriptionOf(values, args, defaults) ==
    IF ~DefaultsSupplied(args, defaults)
    THEN [log |-> <<>>, resolved |-> NoArguments,
          outcome |-> [kind |-> "raise", value |-> Str("Exception")]]
    ELSE LET _subject == ResolveRole("subject", args.subject,
                                     defaults.subject, values)
             _action == ResolveRole("action", args.action,
                                    defaults.action, values)
             _resource == ResolveRole("resource", args.resource,
                                      defaults.resource, values)
             _environment == ResolveRole("environment", args.environment,
                                         defaults.environment, values)
             stripped == [subject |-> RemoveEmptyDicts(_subject.value),
                          action |-> RemoveEmptyDicts(_action.value),
                          resource |-> RemoveEmptyDicts(_resource.value),
                          environment |-> RemoveEmptyDicts(_environment.value)]
         IN [log |-> _subject.invoked \o _action.invoked \o _resource.invoked
                       \o _environment.invoked,
             resolved |-> [subject |-> _subject.value,
                           action |-> _action.value,
                           resource |-> _resource.value,
                           environment |-> _environment.value],
             outcome |->
                 IF \E r \in Roles : PyEq(stripped[r], AttributeError)
                 THEN [kind |-> "raise", value |-> Str("AttributeError")]
                 ELSE [kind |-> "return",
                       value |-> [type |-> "AuthorizationSubscription",
                                  val |-> stripped]]]

\* the head of create_authorization_subscription with _identify_type
\* consulted whatever the scope
CheckScope_AlwaysIdentify(values, scope, enforcement_type, identified) ==
    [fn_type |-> identified,
     log |-> <<<<"_identify_type", "-", values>>,
               <<"_valid_combinations", identified, enforcement_type>>>>]

\* the head of create_authorization_subscription: the type that is checked
\* and the collaborators invoked; identified is what _identify_type answers
CheckScope(values, scope, enforcement_type, identified) ==
    IF scope = "automatic"
    THEN [fn_type |-> identified,
          log |-> <<<<"_identify_type", "-", values>>,
                    <<"_valid_combinations", identified, enforcement_type>>>>]
    ELSE [fn_type |-> scope,
          log |-> <<<<"_valid_combinations", scope, enforcement_type>>>>]

\* create_authorization_subscription up to its last line; valid tells
\* whether _valid_combinations returns or raises
CreateAuthorizationSubscription(values, scope, enforcement_type, identified, valid) ==
    /\ factory.pc # "checked"
    /\ LET head == CheckScope(values, scope, enforcement_type, identified) IN
       factory' = [IdleFactory EXCEPT
                     !.pc = IF valid THEN "checked" ELSE "raised",
                     !.values = values, !.scope = scope,
                     !.enforcement_type = enforcement_type,
                     !.fn_type = head.fn_type, !.log = head.log,
                     !.outcome = IF valid THEN [kind |-> "-", value |-> None]
                                 ELSE [kind |-> "raise",
                                       value |-> Str("_valid_combinations")]]
    /\ UNCHANGED <<remoteVars, builderVars, decoratorVars, dummyVars,
                 enforcementVars, stripVars>>

\* the last line: _create_subscription_for_type hands the arguments of the
\* decorator and the default functions of the integration to
\* _create_subscription, whose result goes back to the caller
CreateSubscriptionForType(args, defaults) ==
    /\ factory.pc = "checked"
    /\ LET made == CreateSubscriptionOf(factory.values, args, defaults) IN
       factory' = [factory EXCEPT
                     !.pc = IF made.outcome.kind = "return" THEN "done"
                            ELSE "failed",
                     !.args = args, !.defaults = defaults,
                     !.log = factory.log \o made.log,
                     !.resolved = made.resolved,
                     !.outcome = made.outcome]
    /\ UNCHANGED <<remoteVars, builderVars, decoratorVars, dummyVars,
                 enforcementVars, stripVars>>

(***************************************************************************)
(* decorators.  decorated is the operation a strategy was last applied to  *)
(* and what the strategy handed back; invocations are the calls of that    *)
(* wrapper so far: what each raised, the enforcement point it created and  *)
(* the method of the enforcement point it handed over to.                  *)
(***************************************************************************)
Strategies == {"pre_enforce", "post_enforce", "pre_and_post_enforce",
               "enforce_drop_while_denied", "enforce_recoverable_if_denied"}

Streaming == {"enforce_drop_while_denied", "enforce_recoverable_if_denied"}

\* protected operations; coroutine is asyncio.iscoroutinefunction(fn)
Fns == {[name |-> "f", coroutine |-> TRUE], [name |-> "g", coroutine |-> FALSE]}

DecoratorArguments ==
    [subject : {None, Str("user")}, action : {None}, resource : {None},
     environment : {None}, scope : {"default", "automatic"}]

Args == {<<>>, <<"a">>}

NoDecoration ==
    [strategy |-> "-", fn |-> [name |-> "-", coroutine |-> FALSE],
     arguments |-> [subject |-> None, action |-> None, resource |-> None,
                    environment |-> None, scope |-> "-"],
     outcome |-> "-", wrapper |-> "-"]

\* PolicyEnforcementPoint(fn, args, kwargs) or PolicyEnforcementPoint(fn, *args, **kwargs)
EnforcementPoint(fn, passing, args) ==
    [type |-> "PolicyEnforcementPoint",
     val |-> [fn |-> fn, passing |-> passing, args |-> args]]

Passing(strategy) ==
    IF strategy \in {"post_enforce", "pre_and_post_enforce"} THEN "spread"
    ELSE "packed"

\* a wrapper of enforce_drop_while_denied that awaits recoverable_if_denied
Method_AllRecoverable(strategy) ==
    CASE strategy \in Streaming -> "recoverable_if_denied"
      [] OTHER -> strategy

\* a wrapper of enforce_recoverable_if_denied that awaits drop_while_denied
Method_AllDrop(strategy) ==
    CASE strategy \in Streaming -> "drop_while_denied"
      [] OTHER -> strategy

\* the method of the enforcement point the async wrapper awaits
Method(strategy) ==
    CASE strategy = "enforce_drop_while_denied" -> "drop_while_denied"
      [] strategy = "enforce_recoverable_if_denied" -> "recoverable_if_denied"
      [] OTHER -> strategy

\* a sync_wrap of pre_enforce that calls sync_post_enforce
SyncMethod_Post(strategy) ==
    CASE strategy = "pre_enforce" -> "sync_post_enforce"
      [] strategy = "post_enforce" -> "sync_post_enforce"
      [] strategy = "pre_and_post_enforce" -> "sync_pre_and_post_enforce"

\* the method of the enforcement point the synchronous wrapper calls
SyncMethod(strategy) ==
    CASE strategy = "pre_enforce" -> "sync_pre_enforce"
      [] strategy = "post_enforce" -> "sync_post_enforce"
      [] strategy = "pre_and_post_enforce" -> "sync_pre_and_post_enforce"

\* async def wrap of the five strategies
Wrap(d, args) ==
    [args |-> args, raised |-> "-",
     enforcement_point |-> EnforcementPoint(d.fn, Passing(d.strategy), args),
     delegated |-> Method(d.strategy)]

\* def sync_wrap of pre_enforce, post_enforce and pre_and_post_enforce
SyncWrap(d, args) ==
    [args |-> args, raised |-> "-",
     enforcement_point |-> EnforcementPoint(d.fn, Passing(d.strategy), args),
     delegated |-> SyncMethod(d.strategy)]

\* a sync_wrap that creates its enforcement point before it raises
StreamingSyncWrap_CreatesPoint(d, args) ==
    [args |-> args, raised |-> "Exception",
     enforcement_point |-> EnforcementPoint(d.fn, "packed", args),
     delegated |-> "-"]

\* def sync_wrap of the two streaming strategies
StreamingSyncWrap(d, args) ==
    [args |-> args, raised |-> "Exception", enforcement_point |-> None,
     delegated |-> "-"]

(***************************************************************************)
(* PolicyEnforcementPoint.  pep is the enforcement point of the latest     *)
(* invocation: the method the wrapper handed over to, the steps it still   *)
(* has to take, the decision it holds, what happened so far (log, in       *)
(* order), what it emitted to the consumer (out) and how it ended.         *)
(***************************************************************************)
Decisions == {PERMIT, DENY, INDETERMINATE}

\* the decision point raised instead of answering
PdpError == [type |-> "raise", val |-> "Exception"]

\* the synthetic value that tells the consumer that values are withheld
Notification == <<"notification", 0>>

NoPoint ==
    [method |-> "-", todo |-> <<>>, decision |-> None, log |-> <<>>,
     out |-> <<>>, pulled |-> 0, ndec |-> 0, outcome |-> "-"]

\* the steps of the five strategies of the enforcement point
Steps(method) ==
    CASE method \in {"pre_enforce", "sync_pre_enforce"} -> <<"decide", "invoke">>
      [] method \in {"post_enforce", "sync_post_enforce"} ->
             <<"invoke", "decide">>
      [] method \in {"pre_and_post_enforce", "sync_pre_and_post_enforce"} ->
             <<"decide", "invoke", "decide">>
      [] method \in {"drop_while_denied", "recoverable_if_denied"} ->
             <<"stream">>
      [] OTHER -> <<>>

\* the enforcement point of an invocation, its method just entered
NewPoint(invocation) ==
    IF invocation.delegated = "-" THEN NoPoint
    ELSE [NoPoint EXCEPT !.method = invocation.delegated,
                         !.todo = Steps(invocation.delegated)]

Finished(point) ==
    IF Len(point.todo) = 1 THEN "return" ELSE "-"

\* a non-streaming strategy obtains a decision: anything but PERMIT ends the
\* enforcement with a failure signalled to the caller
PepDecision(answer) ==
    /\ pep.todo # <<>>
    /\ Head(pep.todo) = "decide"
    /\ pep' = IF PyEq(answer, PERMIT)
              THEN [pep EXCEPT !.decision = answer,
                               !.log = Append(@, <<"decision", answer>>),
                               !.ndec = @ + 1,
                               !.todo = Tail(@),
                               !.outcome = Finished(pep)]
              ELSE [pep EXCEPT !.decision = answer,
                               !.log = Append(@, <<"decision", answer>>),
                               !.ndec = @ + 1,
                               !.todo = <<>>,
                               !.outcome = IF PyEq(answer, PdpError)
                                           THEN "Exception"
                                           ELSE "EnforcementViolation"]
    /\ UNCHANGED <<remoteVars, builderVars, factoryVars, decoratorVars,
                   dummyVars, stripVars>>

\* a non-streaming strategy invokes the protected operation
PepInvoke ==
    /\ pep.todo # <<>>
    /\ Head(pep.todo) = "invoke"
    /\ pep' = [pep EXCEPT !.log = Append(@, <<"fn", decorated.fn.name>>),
                          !.todo = Tail(@),
                          !.outcome = Finished(pep)]
    /\ UNCHANGED <<remoteVars, builderVars, factoryVars, decoratorVars,
                   dummyVars, stripVars>>

\* the decision stream of a streaming strategy delivers its next decision
PullDecision(d) ==
    /\ pep.todo = <<"stream">>
    /\ pep.ndec < MaxDecisions
    /\ pep' = [pep EXCEPT
                 !.decision = d,
                 !.log = Append(@, <<"decision", d>>),
                 !.ndec = @ + 1,
                 !.out = IF /\ pep.method = "recoverable_if_denied"
                            /\ PyEq(pep.decision, PERMIT)
                            /\ ~PyEq(d, PERMIT)
                         THEN Append(@, Notification) ELSE @]
    /\ UNCHANGED <<remoteVars, builderVars, factoryVars, decoratorVars,
                   dummyVars, stripVars>>

\* the next value of the protected stream is pulled: it goes to the consumer
\* when the decision held at this moment is PERMIT and is dropped otherwise
PullValue ==
    /\ pep.todo = <<"stream">>
    /\ pep.pulled < MaxValues
    /\ LET v == pep.pulled + 1 IN
       pep' = [pep EXCEPT
                 !.pulled = v,
                 !.log = Append(@, <<"value", v>>),
                 !.out = IF PyEq(pep.decision, PERMIT)
                         THEN Append(@, <<"value", v>>) ELSE @]
    /\ UNCHANGED <<remoteVars, builderVars, factoryVars, decoratorVars,
                   dummyVars, stripVars>>

\* the protected stream ends or the consumer stops pulling
EndStream ==
    /\ pep.todo = <<"stream">>
    /\ pep' = [pep EXCEPT !.todo = <<>>, !.outcome = "return"]
    /\ UNCHANGED <<remoteVars, builderVars, factoryVars, decoratorVars,
                   dummyVars, stripVars>>

\* a strategy applied to fn: every branch returns a wrapper
Decorate(strategy, fn, arguments) ==
    /\ decorated' = [strategy |-> strategy, fn |-> fn, arguments |-> arguments,
                     outcome |-> "return",
                     wrapper |-> IF fn.coroutine THEN "wrap" ELSE "sync_wrap"]
    /\ invocations' = <<>>
    /\ pep' = NoPoint
    /\ UNCHANGED <<remoteVars, builderVars, factoryVars, dummyVars, stripVars>>

\* the wrapper called with args
Invoke(args) ==
    /\ decorated.wrapper # "-"
    /\ Len(invocations) < MaxInvocations
    /\ invocations' =
           Append(invocations,
                  IF decorated.wrapper = "wrap" THEN Wrap(decorated, args)
                  ELSE IF decorated.strategy \in Streaming
                  THEN StreamingSyncWrap(decorated, args)
                  ELSE SyncWrap(decorated, args))
    /\ pep' = NewPoint(invocations'[Len(invocations')])
    /\ UNCHANGED <<decorated, remoteVars, builderVars, factoryVars, dummyVars, stripVars>>

(***************************************************************************)
(* DummyPolicyDecisionPoint.  dummy is its last call and what it gave.     *)
(***************************************************************************)
DecisionEvents == {"decide", "multi-decide"}

NoDummyCall == [op |-> "-", sub |-> None, event |-> "-",
                outcome |-> Outcome("-", None, "-", FALSE)]

\* a decide that yields the decision twice
DummyDecide_Twice(subscription, decision_events) ==
    Outcome("stream", <<PERMIT, PERMIT>>, "StopAsyncIteration", FALSE)

\* the async generator decide, run until it ends
DummyDecide(subscription, decision_events) ==
    Outcome("stream", <<PERMIT>>, "StopAsyncIteration", FALSE)

DummyDecideOnce(subscription, decision_events) ==
    Outcome("return", PERMIT, "-", FALSE)

DummySyncDecide(subscription, decision_events) ==
    Outcome("return", PERMIT, "-", FALSE)

\* one call of the dummy decision point: no request, no response
DummyCall(op, subscription, decision_events) ==
    /\ dummy' = [op |-> op, sub |-> subscription, event |-> decision_events,
                 outcome |->
                     CASE op = "decide" ->
                              DummyDecide(subscription, decision_events)
                       [] op = "decide_once" ->
                              DummyDecideOnce(subscription, decision_events)
                       [] op = "sync_decide" ->
                              DummySyncDecide(subscription, decision_events)]
    /\ UNCHANGED <<remoteVars, builderVars, factoryVars, decoratorVars,
                 enforcementVars, stripVars>>

(***************************************************************************)
(* Specifications                                                          *)
(***************************************************************************)
\* the state once the modules are imported: the class body has run and the
\* module-level pdp = PolicyDecisionPoint.from_settings() has built one
\* client with the default arguments; a builder has just been constructed
Imported ==
    /\ headers = SetItem(ClassHeaders, "Authorization",
                         BasicAuth(DefaultCredentials[1], DefaultCredentials[2]))
    /\ clients = <<[base_url |-> "http://localhost:8443/api/pdp/",
                    verify |-> "False"]>>
    /\ call = NoCall
    /\ result = [op |-> "__init__", resp |-> NoResponse,
                 outcome |-> Outcome("return", None, "-", FALSE),
                 stream |-> NoStream]
    /\ built = FALSE
    /\ subject = <<>>
    /\ action = <<>>
    /\ resource = <<>>
    /\ environment = <<>>
    /\ authorization_subscription = <<>>
    /\ multi = None
    /\ bres = "new"
    /\ nbuild = 0
    /\ added = <<>>
    /\ factory = IdleFactory
    /\ decorated = NoDecoration
    /\ invocations = <<>>
    /\ dummy = NoDummyCall
    /\ pep = NoPoint

Init == Imported /\ strip = NoStrip

\* a dictionary about to be stripped
InitStrip == Imported /\ \E d \in Dictionaries(MaxDepth) :
                             strip = [NoStrip EXCEPT !.dictionary = d]

Operations == {"decide", "decide_once", "sync_decide"}

NextRemote ==
    \/ \E base_url \in Urls \cup {"None"},
          cred \in Credentials \cup {<<"None", "None">>},
          verify \in {"None", "True"} :
           Construct(base_url, cred[1], cred[2], verify)
    \/ \E op \in Operations, i \in 1..Len(clients), r \in Requests :
           Call(op, i, r[1], r[2])
    \/ \E r \in Responses : Respond(r)

NextBuilder ==
    \/ \E s \in InputSubscriptions : WithAuthorizationSubscription(s)
    \/ Build

NextFactory ==
    \/ \E values \in Contexts, scope \in Scopes, e \in EnforcementTypes,
          identified \in FnTypes, valid \in BOOLEAN :
           CreateAuthorizationSubscription(values, scope, e, identified, valid)
    \/ \E args \in [Roles -> SuppliedArguments], defaults \in DefaultFunctions :
           CreateSubscriptionForType(args, defaults)

SpecFactory == Init /\ [][NextFactory]_vars

NextDecorators ==
    \/ \E strategy \in Strategies, fn \in Fns, arguments \in DecoratorArguments :
           Decorate(strategy, fn, arguments)
    \/ \E args \in Args : Invoke(args)

SpecDecorators == Init /\ [][NextDecorators]_vars

\* the arguments of a strategy applied without arguments
DefaultArguments ==
    [subject |-> None, action |-> None, resource |-> None,
     environment |-> None, scope |-> "default"]

NextEnforcement ==
    \/ \E strategy \in Strategies, fn \in Fns :
           Decorate(strategy, fn, DefaultArguments)
    \/ Invoke(<<"a">>)
    \/ \E answer \in Decisions \cup {PdpError} : PepDecision(answer)
    \/ PepInvoke
    \/ \E d \in Decisions : PullDecision(d)
    \/ PullValue
    \/ EndStream

SpecEnforcement == Init /\ [][NextEnforcement]_vars

NextStrip == RemoveEmptyDictsCall

SpecStrip == InitStrip /\ [][NextStrip]_vars

NextDummy ==
    \E op \in Operations, subscription \in InputSubscriptions \cup {None},
       decision_events \in DecisionEvents :
        DummyCall(op, subscription, decision_events)

SpecDummy == Init /\ [][NextDummy]_vars

SpecRemote == Init /\ [][NextRemote]_vars

SpecBuilder == Init /\ [][NextBuilder]_vars

(***************************************************************************)
(* Properties of the Remote client                                         *)
(***************************************************************************)
\* the body holds no blank line, so no event is ever complete
NoBlankLine(body) ==
    ~\E k \in 1..(Len(body) - 1) : body[k] = "NL" /\ body[k + 1] = "NL"

\* the events of a body, read byte by byte: an event ends at a newline that
\* is followed by a newline, its payload is its bytes without the newlines,
\* and what follows the last blank line is no event
RECURSIVE Frames(_, _)
Frames(body, cur) ==
    IF body = <<>> THEN <<>>
    ELSE IF Head(body) = "NL"
         THEN IF Len(body) >= 2 /\ body[2] = "NL"
              THEN <<cur>> \o Frames(Tail(Tail(body)), <<>>)
              ELSE Frames(Tail(body), cur)
         ELSE Frames(Tail(body), Append(cur, Head(body)))

\* the decision object a one-token payload is the JSON text of
JsonDecision(frame) ==
    CASE frame = <<"P">> -> PERMIT
      [] frame = <<"D">> -> DENY
      [] frame = <<"I">> -> INDETERMINATE

Returned(v) == result.outcome.kind = "return" /\ PyEq(result.outcome.value, v)

\* C1: decide_once is fail-closed: when no decision can be obtained (the
\* connection fails, the status is 204 or any status other than 200, or the
\* stream of a 200 response ends without a complete event) decide_once
\* returns DENY and raises nothing.
C1_FailClosed ==
    (/\ result.op = "decide_once"
     /\ \/ result.resp.net = "fail"
        \/ result.resp.status # 200
        \/ NoBlankLine(result.resp.body))
    => Returned(DENY)

C1_Witness ==
    /\ result.op = "decide_once"
    /\ result.resp.status = 200
    /\ result.resp.body = <<"P", "NL">>
    /\ ~result.resp.abort
    /\ Returned(DENY)

\* C2: decide_once never surfaces INDETERMINATE or an undecodable payload:
\* whatever the service answers, it returns a decision object whose
\* decision is PERMIT, DENY or NOT_APPLICABLE.
C2_NeverIndeterminate ==
    result.op = "decide_once"
    => /\ result.outcome.kind = "return"
       /\ \E d \in {"PERMIT", "DENY", "NOT_APPLICABLE"} :
              PyEq(result.outcome.value, Dict(d))

C4_NonOkYieldsIndeterminate ==
    (/\ result.op = "decide"
     /\ result.resp.net = "ok"
     /\ result.resp.status # 200)
    => /\ result.outcome.kind = "stream"
       /\ result.outcome.value = <<INDETERMINATE>>
       /\ result.outcome.end = "StopAsyncIteration"
       /\ ~result.outcome.read

\* C5: every decision request (decide, decide_once, sync_decide) is a POST
\* to base_url followed by the event kind, with the subscription as its
\* body and the client's headers.
C5_RequestShape ==
    call # NoCall
    => call.req = [method |-> "POST",
                   url |-> <<clients[call.client].base_url, call.event>>,
                   data |-> call.sub,
                   headers |-> HeadersOf(call.client)]

\* C6: on a status-200 response that arrives whole and holds at least one
\* complete event, sync_decide returns the decision of the first complete
\* event, INDETERMINATE being returned as DENY, and never None.
C6_SyncFirstEvent ==
    (/\ result.op = "sync_decide"
     /\ result.resp.net = "ok"
     /\ result.resp.status = 200
     /\ ~result.resp.abort
     /\ ~NoBlankLine(result.resp.body)
     /\ Frames(result.resp.body, <<>>)[1] \in {<<"P">>, <<"D">>, <<"I">>})
    => LET first == JsonDecision(Frames(result.resp.body, <<>>)[1]) IN
       Returned(IF PyEq(first, INDETERMINATE) THEN DENY ELSE first)

\* C7: sync_decide returns DENY for every response whose status is 204 or
\* is not 200, without reading the body.
C7_SyncDenyOnNonOk ==
    (/\ result.op = "sync_decide"
     /\ result.resp.net = "ok"
     /\ result.resp.status # 200)
    => Returned(DENY) /\ ~result.outcome.read

C7_Witness ==
    /\ result.op = "sync_decide"
    /\ result.resp.status = 404
    /\ result.resp.body = <<"P", "NL", "NL">>
    /\ Returned(DENY)
    /\ ~result.outcome.read

\* C8: the headers an existing client sends are fixed at its construction:
\* no later operation, constructing another client included, changes them.
C8_HeadersFixed ==
    [][\A i \in 1..Len(clients) : HeadersOf(i)' = HeadersOf(i)]_vars

(***************************************************************************)
(* Properties of the MultiSubscriptionBuilder                              *)
(***************************************************************************)
tables == <<subject, action, resource, environment,
            authorization_subscription>>

\* C9: build() is single-use: the first call succeeds, every later call
\* fails with "already built", and a failing call changes none of the five
\* sequences.
C9_BuildSingleUse ==
    [][nbuild' # nbuild
       => IF nbuild = 0
          THEN bres' = "ok" /\ multi' # None
          ELSE bres' = "already built" /\ tables' = tables /\ multi' = multi]_vars

C9_Witness ==
    /\ nbuild >= 2
    /\ bres = "already built"
    /\ Len(authorization_subscription) >= 1

\* C10: once build() has been called no later call of
\* with_authorization_subscription changes the builder's tables or
\* descriptors.
C10_ImmutableAfterBuild ==
    [][built => tables' = tables]_vars

\* the table and the descriptor key of a role
TableOf(role) ==
    CASE role = "subject" -> subject
      [] role = "action" -> action
      [] role = "resource" -> resource
      [] role = "environment" -> environment

IdOf(role) ==
    CASE role = "subject" -> SUBJECT_ID
      [] role = "action" -> ACTION_ID
      [] role = "resource" -> RESOURCE_ID
      [] role = "environment" -> ENVIRONMENT_ID

\* a role of a subscription is absent when it is None or the empty mapping
Absent(v) == PyEq(v, None) \/ PyEq(v, Mapping({}))

\* the subscriptions added before the k-th that have the role
EarlierWith(k, role) == {j \in 1..(k - 1) : ~Absent(added[j][role])}

\* C11: every descriptor is index-consistent: it holds a role index exactly
\* for the roles its subscription has, the index is the length of the table
\* minus one at the time of insertion, it lies within the table, and the
\* table holds the subscription's value there.
C11_IndexConsistent ==
    /\ Len(authorization_subscription) = Len(added)
    /\ \A k \in 1..Len(added) : \A role \in Roles :
         LET dic == authorization_subscription[k][2]
             entries == {e \in dic : e[1] = IdOf(role)}
             index == Cardinality(EarlierWith(k, role))
         IN IF Absent(added[k][role])
            THEN entries = {}
            ELSE /\ entries = {<<IdOf(role), index>>}
                 /\ index < Len(TableOf(role))
                 /\ PyEq(TableOf(role)[index + 1], added[k][role])

C11_Witness ==
    /\ Len(added) = 3
    /\ authorization_subscription[3][2] = {<<SUBJECT_ID, 1>>, <<ACTION_ID, 2>>}
    /\ Absent(added[2].subject)
    /\ Absent(added[3].resource)

\* C12: there is one descriptor per added subscription, in call order, one
\* without role indices for a subscription with no role; the length of each
\* table is the number of added subscriptions that have the role, equal
\* values included.
C12_Counts ==
    /\ Len(authorization_subscription) = Len(added)
    /\ \A k \in 1..Len(added) :
         /\ authorization_subscription[k][1] = added[k].subscription_id
         /\ (\A role \in Roles : Absent(added[k][role]))
            => authorization_subscription[k][2] = {}
    /\ \A role \in Roles :
         Len(TableOf(role)) = Cardinality({j \in 1..Len(added) :
                                             ~Absent(added[j][role])})

\* the role patterns {subject}, {action, resource}, {}
C12_Witness ==
    /\ Len(added) = 3
    /\ {role \in Roles : ~Absent(added[1][role])} = {"subject"}
    /\ {role \in Roles : ~Absent(added[2][role])} = {"action", "resource"}
    /\ {role \in Roles : ~Absent(added[3][role])} = {}
    /\ <<Len(subject), Len(action), Len(resource), Len(environment)>>
         = <<1, 1, 1, 0>>
    /\ Len(authorization_subscription) = 3
    /\ authorization_subscription[3][2] = {}

\* what build must hand over for a sequence
Handed(seq) == IF seq = <<>> THEN None ELSE List(seq)

\* C13: build() passes None, never an empty sequence, for every table and
\* for the descriptor sequence that is empty at build time, and the
\* accumulated sequence unchanged for every non-empty one.
C13_EmptyBecomesNone ==
    [][(~built /\ built')
       => /\ multi'.type = "MultiSubscription"
          /\ PyEq(multi'.val.subject, Handed(subject))
          /\ PyEq(multi'.val.action, Handed(action))
          /\ PyEq(multi'.val.resource, Handed(resource))
          /\ PyEq(multi'.val.environment, Handed(environment))
          /\ PyEq(multi'.val.authorization_subscription,
                  Handed(authorization_subscription))]_vars

C13_Witness ==
    /\ built
    /\ Len(added) = 0
    /\ PyEq(multi.val.subject, None)
    /\ PyEq(multi.val.action, None)
    /\ PyEq(multi.val.resource, None)
    /\ PyEq(multi.val.environment, None)
    /\ PyEq(multi.val.authorization_subscription, None)


\* v is an empty mapping or holds one, in a mapping or in a list
RECURSIVE ContainsEmptyMapping(_)
ContainsEmptyMapping(v) ==
    CASE v.type = "dict" ->
             v.val = {} \/ \E p \in v.val : ContainsEmptyMapping(p[2])
      [] v.type = "list" ->
             \E i \in 1..Len(v.val) : ContainsEmptyMapping(v.val[i])
      [] OTHER -> FALSE

\* v is an empty mapping or a mapping of such mappings only
RECURSIVE AllEmpty(_)
AllEmpty(v) == v.type = "dict" /\ \A p \in v.val : AllEmpty(p[2])

Constructed == factory.outcome.value.val

\* C14: in every subscription the factory returns, no role value is or
\* contains an empty mapping at any depth, and a role resolved to an empty
\* mapping or to a mapping of (recursively) empty mappings is absent.
C14_NoEmptyMapping ==
    factory.outcome.kind = "return" =>
        \A r \in Roles :
            /\ ~ContainsEmptyMapping(Constructed[r])
            /\ AllEmpty(factory.resolved[r]) => PyEq(Constructed[r], None)

\* the collaborators _create_subscription invoked for a role, in order
RoleLog(r) == SelectSeq(factory.log, LAMBDA e : e[1] = r)

Resolved == factory.pc \in {"done", "failed"}

\* C15: once _create_subscription has resolved the roles, each role stands
\* alone: a supplied non-callable is the value and nothing was invoked for
\* the role, a supplied callable was invoked once with the context and its
\* result is the value, and with nothing supplied the default function of
\* the role was invoked once with the context; a default function is never
\* invoked for a supplied role.
C15_RoleResolution ==
    (Resolved /\ DefaultsSupplied(factory.args, factory.defaults)) =>
        \A r \in Roles :
            LET argument == factory.args[r] IN
            IF PyEq(argument, None)
            THEN /\ RoleLog(r) = <<<<r, "default", factory.values>>>>
                 /\ PyEq(factory.resolved[r], factory.defaults[r].val)
            ELSE IF argument.type = "function"
            THEN /\ RoleLog(r) = <<<<r, "argument", factory.values>>>>
                 /\ PyEq(factory.resolved[r], argument.val)
            ELSE /\ RoleLog(r) = <<>>
                 /\ PyEq(factory.resolved[r], argument)

C15_Witness ==
    /\ factory.pc = "done"
    /\ PyEq(factory.args.subject, None)
    /\ factory.args.action.type = "function"
    /\ PyEq(factory.args.resource, EmptyMapping)
    /\ PyEq(factory.args.environment, Plain)
    /\ factory.values = "values2"
    /\ Len(factory.log) = 3

\* C16: when a default function is missing, _create_subscription raises
\* Exception, no callable and no default function has been invoked and no
\* subscription is constructed, whatever the caller supplied.
C16_MissingDefaultRaises ==
    (Resolved /\ \E r \in Roles : ~Truthy(factory.defaults[r])) =>
        /\ factory.pc = "failed"
        /\ factory.outcome.kind = "raise"
        /\ PyEq(factory.outcome.value, Str("Exception"))
        /\ \A i \in 1..Len(factory.log) : factory.log[i][1] \notin Roles

C16_Witness ==
    /\ factory.pc = "failed"
    /\ PyEq(factory.defaults.resource, None)
    /\ \A r \in Roles : PyEq(factory.args[r], Plain)

Identified ==
    {i \in 1..Len(factory.log) : factory.log[i][1] = "_identify_type"}

Checked ==
    {i \in 1..Len(factory.log) : factory.log[i][1] = "_valid_combinations"}

\* C17: _valid_combinations is consulted before anything of the construction:
\* when it raises, no callable and no default function has been invoked, no
\* subscription exists and no request is pending; _identify_type is invoked
\* exactly when the scope is "automatic", and otherwise the scope itself is
\* the type that is checked.
C17_CheckBeforeConstruction ==
    factory.pc # "idle" =>
        /\ Cardinality(Checked) = 1
        /\ \A i \in 1..Len(factory.log) :
               factory.log[i][1] \in Roles => \A c \in Checked : c < i
        /\ \A c \in Checked : \A i \in Identified : i < c
        /\ Cardinality(Identified) = IF factory.scope = "automatic" THEN 1 ELSE 0
        /\ \A i \in Identified : factory.log[i][3] = factory.values
        /\ factory.scope # "automatic" =>
               \A c \in Checked :
                   factory.log[c] = <<"_valid_combinations", factory.scope,
                                      factory.enforcement_type>>
        /\ factory.pc = "raised" =>
               /\ factory.outcome.kind = "raise"
               /\ \A i \in 1..Len(factory.log) : factory.log[i][1] \notin Roles
               /\ call = NoCall

C17_Witness ==
    /\ factory.pc = "raised"
    /\ factory.scope = "stream"
    /\ factory.enforcement_type = "pre_enforce"
    /\ factory.log = <<<<"_valid_combinations", "stream", "pre_enforce">>>>

SyncStreaming == decorated.strategy \in Streaming /\ ~decorated.fn.coroutine

\* C18: a streaming strategy applied to a synchronous operation raises when
\* it is applied, and no call of a wrapper raises it later.
C18_RaisedAtDecoration ==
    SyncStreaming =>
        /\ decorated.outcome = "raise"
        /\ \A i \in 1..Len(invocations) : invocations[i].raised = "-"

\* C19: every call of the wrapper a streaming strategy made of a synchronous
\* operation raises with no enforcement point created, nothing handed to an
\* enforcement point (the only way to the protected operation and to the
\* decision point) and no request pending.
C19_ErrorBeforeEnforcement ==
    SyncStreaming =>
        \A i \in 1..Len(invocations) :
            /\ invocations[i].raised = "Exception"
            /\ PyEq(invocations[i].enforcement_point, None)
            /\ invocations[i].delegated = "-"
            /\ call = NoCall

C19_Witness ==
    /\ SyncStreaming
    /\ decorated.strategy = "enforce_recoverable_if_denied"
    /\ Len(invocations) = 2
    /\ invocations[2].raised = "Exception"

\* C20: whatever the subscription and the event kind, decide_once and
\* sync_decide of the dummy return PERMIT, decide yields PERMIT once and then
\* ends, and no request is issued.
C20_DummyPermits ==
    dummy.op # "-" =>
        /\ dummy.op \in {"decide_once", "sync_decide"} =>
               /\ dummy.outcome.kind = "return"
               /\ PyEq(dummy.outcome.value, PERMIT)
        /\ dummy.op = "decide" =>
               /\ dummy.outcome.kind = "stream"
               /\ dummy.outcome.value = <<PERMIT>>
               /\ dummy.outcome.end = "StopAsyncIteration"
        /\ ~dummy.outcome.read
        /\ call = NoCall

C20_Witness ==
    /\ dummy.op = "decide"
    /\ dummy.event = "multi-decide"
    /\ PyEq(dummy.sub, None)
    /\ Len(dummy.outcome.value) = 1

(***************************************************************************)
(* Properties of the enforcement point                                     *)
(***************************************************************************)
Events(kind) == {i \in 1..Len(pep.log) : pep.log[i][1] = kind}

\* the decision held when event i of the log happened
RECURSIVE Governing(_)
Governing(i) ==
    IF i <= 1 THEN None
    ELSE IF pep.log[i - 1][1] = "decision" THEN pep.log[i - 1][2]
    ELSE Governing(i - 1)

\* C21: under pre_enforce the protected operation is invoked only after a
\* decision was obtained and only when that decision is PERMIT; once the
\* enforcement has ended the operation was invoked exactly once when the
\* decision was PERMIT, and otherwise never, with a failure handed to the
\* caller; on the synchronous and on the asynchronous path alike.
C21_PreEnforce ==
    (decorated.strategy = "pre_enforce" /\ pep.method # "-") =>
        /\ \A i \in Events("fn") :
               \E j \in Events("decision") :
                   j < i /\ PyEq(pep.log[j][2], PERMIT)
        /\ pep.todo = <<>> =>
               /\ Cardinality(Events("decision")) = 1
               /\ IF PyEq(pep.decision, PERMIT)
                  THEN Cardinality(Events("fn")) = 1 /\ pep.outcome = "return"
                  ELSE /\ Events("fn") = {}
                       /\ pep.outcome \in {"EnforcementViolation", "Exception"}
                       /\ ~PyEq(pep.decision, PdpError) =>
                              pep.outcome = "EnforcementViolation"

C21_Witness ==
    /\ decorated.strategy = "pre_enforce"
    /\ ~decorated.fn.coroutine
    /\ pep.method = "sync_pre_enforce"
    /\ pep.todo = <<>>
    /\ Len(pep.log) = 2
    /\ pep.log[2][1] = "fn"
    /\ pep.outcome = "return"

\* the values of the log that were pulled while PERMIT was the latest decision
Forwarded ==
    SelectSeq([i \in 1..Len(pep.log) |->
                   IF pep.log[i][1] = "value" /\ PyEq(Governing(i), PERMIT)
                   THEN pep.log[i] ELSE <<"-", 0>>],
              LAMBDA e : e[1] = "value")

\* C22: under drop-while-denied, whatever the interleaving of decisions and
\* values, the consumer gets exactly the values pulled while the latest
\* decision was PERMIT, in the order of their production, and nothing else.
C22_DropWhileDenied ==
    (decorated.strategy = "enforce_drop_while_denied" /\ pep.method # "-") =>
        pep.out = Forwarded

\* values 1..4 and decisions PERMIT, DENY, DENY, PERMIT, one before each value
Aligned ==
    /\ Len(pep.log) = 8
    /\ \A k \in 1..4 : pep.log[2 * k][1] = "value" /\ pep.log[2 * k][2] = k
    /\ \A k \in 1..4 : pep.log[2 * k - 1][1] = "decision"
    /\ PyEq(pep.log[1][2], PERMIT)
    /\ PyEq(pep.log[3][2], DENY)
    /\ PyEq(pep.log[5][2], DENY)
    /\ PyEq(pep.log[7][2], PERMIT)

C22_Witness ==
    /\ decorated.strategy = "enforce_drop_while_denied"
    /\ decorated.fn.coroutine
    /\ Aligned
    /\ pep.out = <<<<"value", 1>>, <<"value", 4>>>>

\* what reaches the consumer under recoverable-if-denied: the forwarded
\* values, and one notification at each decision that is not PERMIT and
\* follows the decision PERMIT
ForwardedOrNotified ==
    SelectSeq([i \in 1..Len(pep.log) |->
                   IF pep.log[i][1] = "value"
                   THEN IF PyEq(Governing(i), PERMIT) THEN pep.log[i]
                        ELSE <<"-", 0>>
                   ELSE IF /\ pep.log[i][1] = "decision"
                           /\ PyEq(Governing(i), PERMIT)
                           /\ ~PyEq(pep.log[i][2], PERMIT)
                   THEN Notification ELSE <<"-", 0>>],
              LAMBDA e : e[1] # "-")

\* C23: under recoverable-if-denied the values reach the consumer exactly as
\* under drop-while-denied, and one notification is emitted at each change
\* from PERMIT to another decision, never again while the decision stays
\* other than PERMIT.
C23_RecoverableIfDenied ==
    (decorated.strategy = "enforce_recoverable_if_denied" /\ pep.method # "-")
    => /\ pep.out = ForwardedOrNotified
       /\ SelectSeq(pep.out, LAMBDA e : e[1] = "value") = Forwarded
       /\ Len(SelectSeq(pep.out, LAMBDA e : e[1] = "notification")) =
              Cardinality({i \in Events("decision") :
                               /\ PyEq(Governing(i), PERMIT)
                               /\ ~PyEq(pep.log[i][2], PERMIT)})

C23_Witness ==
    /\ decorated.strategy = "enforce_recoverable_if_denied"
    /\ decorated.fn.coroutine
    /\ Aligned
    /\ pep.out = <<<<"value", 1>>, Notification, <<"value", 4>>>>

(***************************************************************************)
(* Properties of _remove_empty_dicts                                       *)
(***************************************************************************)
\* the dictionary without its entries that are empty mappings or mappings of
\* empty mappings only, at every level; every other entry kept
RECURSIVE OnlyEmptyRemoved(_)
OnlyEmptyRemoved(v) ==
    Mapping({<<p[1], IF p[2].type = "dict" THEN OnlyEmptyRemoved(p[2])
                     ELSE p[2]>> : p \in {q \in v.val : ~AllEmpty(q[2])}})

\* C24: the result of _remove_empty_dicts keeps every key whose value is not
\* a mapping (None included) with its value and every key whose value is a
\* mapping that is not empty once stripped, with the stripped value.
C24_OnlyEmptyMappingsRemoved ==
    strip.called =>
        PyEq(strip.result, IF AllEmpty(strip.dictionary) THEN None
                              ELSE OnlyEmptyRemoved(strip.dictionary))

(***************************************************************************)
(* Properties of the decision stream of decide_once                        *)
(***************************************************************************)
\* C25: whenever decide_once has returned, the generator it created is
\* closed or has run to its end and no request is pending; at most one
\* decision was taken from it: the first decision goes with a closed
\* generator, DENY after a failure or an empty stream with one that ended.
C25_StreamReleased ==
    (result.op = "decide_once" /\ result.outcome.kind = "return") =>
        /\ result.stream.state \in {"closed", "finished"}
        /\ call = NoCall
        /\ result.stream.pulled <= 1
        /\ result.stream.pulled = 1 => result.stream.state = "closed"
        /\ result.stream.pulled = 0 =>
               /\ result.stream.state = "finished"
               /\ PyEq(result.outcome.value, DENY)

\* the service sent two decisions: one was taken, the stream is closed
C25_Witness ==
    /\ result.op = "decide_once"
    /\ result.outcome.kind = "return"
    /\ result.stream = [state |-> "closed", pulled |-> 1]
    /\ Len(Decide(result.resp).yields) = 2
====
